---- MODULE Spec2Model ----
(***************************************************************************)
(* The torrent engine of simple-torrent (package engine): admission        *)
(* control over the protocol client, the per-task worker, task and file    *)
(* start/stop, the seed-ratio policy, reconfiguration and the resume       *)
(* cache.                                                                  *)
(***************************************************************************)
EXTENDS Naturals, Integers, Sequences, FiniteSets, TLC

VARIABLES
    gen,          \* number of clients made so far: names e.client and its closeSync
    clientUp,     \* e.client != nil
    csClosed,     \* closeSync channel number gen is closed
    config,       \* e.config
    elock,        \* a Configure call holding e.Lock, and how far it has got
    torrents,     \* info hashes in e.client.Torrents()
    recs,         \* every *Torrent record allocated so far
    ts,           \* e.ts: info hash -> index into recs (0: absent)
    waitList,     \* e.waitList, head first
    pend,         \* add requests that have not yet taken e.taskMutex
    cur,          \* the add request holding e.taskMutex
    workers,      \* running torrentEventProcessor goroutines
    nwt,          \* dispatched `go e.NextWaitTask()` not yet run
    async,        \* dispatched `go e.StartTorrent/StopTorrent/DeleteTorrent` not yet run
    mcall,        \* ManualStartTorrent calls between StartTorrent and the flag write
    magnetCache,  \* identities with a magnet (minimal) cache file
    torrentCache, \* identities with a torrent (complete) cache file
    tsChanged,    \* e.TsChanged holds a value (capacity 1)
    now,          \* time.Now()
    budget,       \* caller operations left
    ret,          \* result of the last caller operation that returned
    panicked      \* the process died of a nil dereference

vars == <<gen, clientUp, csClosed, config, elock, torrents, recs, ts, waitList,
          pend, cur, workers, nwt, async, mcall, magnetCache, torrentCache,
          tsChanged, now, budget, ret, panicked>>

----------------------------------------------------------------------------
(* Bounds *)

NumIds == 3
NumFiles == 2
MaxCallsAdm == 4
MaxCallsTask == 4
MaxAsync == 1
MaxTime == 3
RatioThreshold == 1
RemoveAfter == 1
MaxCallsPolicy == 3
MaxCallsQueue == 5
MaxCallsHandover == 6

Ids == 1..NumIds
FileIdx == 1..NumFiles
Ratios == 0..(RatioThreshold + 1)

taskTorrent == "torrent"
taskMagnet == "magnet"

ErrNone == "nil"
ErrMaxConnTasks == "Max conncurrent task reached"
ErrTaskExists == "Task already exists"
ErrMissingTorrent == "Missing torrent"
ErrAlreadyStarted == "Already started"
ErrAlreadyStopped == "Already stopped"
ErrMissingFile == "Missing file"
ErrFileAlreadyStarted == "already started"
ErrFileAlreadyStopped == "already stopped"
ErrInvalidPort == "Invalid incoming port"
ErrNewClient == "NewClient failed"
ErrAddTorrentSpec == "AddTorrentSpec failed"

PiecePriorityNone == "none"
PiecePriorityNormal == "normal"

----------------------------------------------------------------------------
(* Configurations offered to Configure *)

MkConfig(port, max, ratio, remove, auto) ==
    [IncomingPort |-> port, MaxConcurrentTask |-> max, SeedRatio |-> ratio,
     RemoveTaskAfterStopped |-> remove, AutoStart |-> auto]

ZeroConfig == MkConfig(0, 0, 0, 0, FALSE)

AdmConfigs == {MkConfig(p, m, 0, 0, FALSE) : p \in {0, 1}, m \in {1, 2}}

TaskConfigs == {MkConfig(1, 0, r, 0, a) : r \in {0, RatioThreshold}, a \in BOOLEAN}

----------------------------------------------------------------------------
(* Records *)

NewTorrentRec(ih, isQueueing) ==
    [InfoHash |-> ih, IsQueueing |-> isQueueing, dropWait |-> FALSE,
     hasInfo |-> FALSE, Started |-> FALSE, ManualStarted |-> FALSE,
     Done |-> FALSE, SeedRatio |-> 0, StartedAt |-> 0, StoppedAt |-> 0,
     Files |-> <<>>, upload |-> TRUE, download |-> TRUE]

NewFile == [Started |-> FALSE, priority |-> PiecePriorityNone]

NoLock ==
    [held |-> FALSE, pc |-> "none", c |-> ZeroConfig, had |-> FALSE, prev |-> {},
     snap |-> {}]

Idle == [pc |-> "idle", ih |-> 0, tp |-> "none", src |-> "none", rec |-> 0]

NewWorker(r, ih) == [rec |-> r, ih |-> ih, gen |-> gen, cs |-> 0, pc |-> "start"]

Remove(seq, i) == [j \in 1..(Len(seq) - 1) |-> IF j < i THEN seq[j] ELSE seq[j + 1]]

AsyncOps == {"start", "stop", "delete", "purge"}

\* who called newTorrentBySpec: a caller of NewMagnet or NewTorrentByReader, a
\* caller of NewTorrentByFilePath (whose deferred function recovers a panic), or
\* the goroutine of NextWaitTask
Reqs == [ih : Ids, tp : {taskTorrent, taskMagnet}, src : {"call", "path", "nwt"}]

Running == ~panicked

----------------------------------------------------------------------------
(* Construction *)

InitBase ==
    /\ gen = 0 /\ clientUp = FALSE /\ csClosed = FALSE
    /\ config = ZeroConfig /\ elock = NoLock
    /\ torrents = {} /\ recs = <<>> /\ ts = [i \in Ids |-> 0]
    /\ waitList = <<>> /\ pend = [r \in Reqs |-> 0] /\ cur = Idle
    /\ workers = <<>> /\ nwt = 0
    /\ async = [o \in AsyncOps, i \in Ids |-> 0]
    /\ mcall = {} /\ magnetCache = {} /\ torrentCache = {}
    /\ tsChanged = FALSE /\ now = 1 /\ ret = ErrNone /\ panicked = FALSE

----------------------------------------------------------------------------
(* Helpers of the engine *)

\* e.getTorrent: the record of an info hash, 0 when the table has none
getTorrent(ih) == ts[ih]

isTaskInList(ih) == ts[ih] # 0

isReadyAddTask ==
    ~(config.MaxConcurrentTask > 0 /\ Cardinality(torrents) >= config.MaxConcurrentTask)

\* e.upsertTorrent: the table and the records after an insert-or-update
upsertRecs(ih, isQueueing) ==
    IF ts[ih] = 0 THEN Append(recs, NewTorrentRec(ih, isQueueing))
    ELSE [recs EXCEPT ![ts[ih]].IsQueueing = isQueueing]

upsertTs(ih) == IF ts[ih] = 0 THEN [ts EXCEPT ![ih] = Len(recs) + 1] ELSE ts

InWaitList(ih) == \E i \in 1..Len(waitList) : waitList[i].ih = ih

\* e.pushWaitTask: an identity already queued is refused (ErrTaskExists)
pushWaitTask(ih, tp) ==
    IF InWaitList(ih) THEN waitList ELSE Append(waitList, [ih |-> ih, tp |-> tp])

\* syncList.Remove: drops the entry of an info hash, if any
waitListRemove(ih) == SelectSeq(waitList, LAMBDA e : e.ih # ih)

\* torrent.Torrent.Drop on a handle of client generation g
dropHandle(ih, g) == IF clientUp /\ g = gen THEN torrents \ {ih} ELSE torrents

\* a closeSync channel, named by the client it was made for, is closed; channel
\* 0 is the nil channel of an engine never configured
chanClosed(k) == k # 0 /\ (k < gen \/ (k = gen /\ csClosed))

\* the channel the field e.closeSync holds: between the store of the new client
\* and the store of its channel it is still the channel of the client before
closeSync == IF elock.held /\ elock.pc = "signal" THEN gen - 1 ELSE gen

Since(t) == IF t = 0 THEN MaxTime + 1 ELSE now - t

----------------------------------------------------------------------------
(* Configure *)

\* the port check, before the lock is taken
ConfigureInvalid(c) ==
    /\ Running /\ budget > 0 /\ c.IncomingPort <= 0
    /\ budget' = budget - 1 /\ ret' = ErrInvalidPort
    /\ UNCHANGED <<gen, clientUp, csClosed, config, elock, torrents, recs, ts,
                   waitList, pend, cur, workers, nwt, async, mcall, magnetCache,
                   torrentCache, tsChanged, now, panicked>>

\* takes e.Lock (line 81) and builds the client configuration; e.client decides
\* whether a teardown follows
ConfigureTeardown(c) ==
    /\ Running /\ budget > 0 /\ c.IncomingPort > 0 /\ ~elock.held
    /\ budget' = budget - 1
    /\ elock' = [held |-> TRUE, pc |-> IF clientUp THEN "range" ELSE "client",
                 c |-> c, had |-> clientUp,
                 prev |-> IF clientUp
                          THEN {ts[i] : i \in {j \in Ids : ts[j] # 0 /\ j \in torrents}}
                          ELSE {},
                 snap |-> {}]
    /\ UNCHANGED <<gen, clientUp, csClosed, config, torrents, recs, ts, waitList,
                   pend, cur, workers, nwt, async, mcall, magnetCache,
                   torrentCache, tsChanged, now, ret, panicked>>

\* range e.client.Torrents() (line 118): the loop works on the torrents the
\* client holds at this moment
ConfigureRange ==
    /\ Running /\ elock.held /\ elock.pc = "range"
    /\ elock' = [elock EXCEPT !.pc = "drop", !.snap = torrents]
    /\ UNCHANGED <<gen, clientUp, csClosed, config, torrents, recs, ts, waitList,
                   pend, cur, workers, nwt, async, mcall, magnetCache,
                   torrentCache, tsChanged, now, budget, ret, panicked>>

\* t.Drop() (line 119) on one torrent of the range; a torrent handed to the
\* client after line 118 is not among them
ConfigureDrop(ih) ==
    /\ Running /\ elock.held /\ elock.pc = "drop" /\ ih \in elock.snap
    /\ torrents' = torrents \ {ih}
    /\ elock' = [elock EXCEPT !.snap = @ \ {ih}]
    /\ UNCHANGED <<gen, clientUp, csClosed, config, recs, ts, waitList, pend, cur,
                   workers, nwt, async, mcall, magnetCache, torrentCache,
                   tsChanged, now, budget, ret, panicked>>

\* the loop is over: e.client.Close(); close(e.closeSync). The closed client is
\* still in e.client and keeps the torrents handed to it since line 118
ConfigureClose ==
    /\ Running /\ elock.held /\ elock.pc = "drop" /\ elock.snap = {}
    /\ csClosed' = TRUE
    /\ elock' = [elock EXCEPT !.pc = "clear"]
    /\ UNCHANGED <<gen, clientUp, config, torrents, recs, ts, waitList, pend, cur,
                   workers, nwt, async, mcall, magnetCache, torrentCache,
                   tsChanged, now, budget, ret, panicked>>

ConfigureClearKeepsTable ==
    /\ Running /\ elock.held /\ elock.pc = "clear"
    /\ clientUp' = FALSE
    /\ torrents' = {}
    /\ elock' = [elock EXCEPT !.pc = "client"]
    /\ UNCHANGED <<gen, csClosed, config, recs, ts, waitList, pend, cur, workers,
                   nwt, async, mcall, magnetCache, torrentCache, tsChanged, now,
                   budget, ret, panicked>>

\* e.client = nil; e.ts = make(map[string]*Torrent); the settle delay
ConfigureClear ==
    /\ Running /\ elock.held /\ elock.pc = "clear"
    /\ clientUp' = FALSE
    /\ torrents' = {}
    /\ ts' = [i \in Ids |-> 0]
    /\ elock' = [elock EXCEPT !.pc = "client"]
    /\ UNCHANGED <<gen, csClosed, config, recs, waitList, pend, cur, workers, nwt,
                   async, mcall, magnetCache, torrentCache, tsChanged, now,
                   budget, ret, panicked>>

\* torrent.NewClient succeeds within the retries: e.client is the new client
ConfigureRebuild ==
    /\ Running /\ elock.held /\ elock.pc = "client"
    /\ clientUp' = TRUE /\ gen' = gen + 1 /\ csClosed' = FALSE
    /\ torrents' = {}
    /\ elock' = [elock EXCEPT !.pc = "signal"]
    /\ UNCHANGED <<config, recs, ts, waitList, pend, cur, workers, nwt, async,
                   mcall, magnetCache, torrentCache, tsChanged, now, budget, ret,
                   panicked>>

\* e.closeSync = make(chan struct{})
ConfigureSignal ==
    /\ Running /\ elock.held /\ elock.pc = "signal"
    /\ elock' = [elock EXCEPT !.pc = "commit"]
    /\ UNCHANGED <<gen, clientUp, csClosed, config, torrents, recs, ts, waitList,
                   pend, cur, workers, nwt, async, mcall, magnetCache,
                   torrentCache, tsChanged, now, budget, ret, panicked>>

\* e.config = *c; return nil
ConfigureCommit ==
    /\ Running /\ elock.held /\ elock.pc = "commit"
    /\ config' = elock.c
    /\ elock' = NoLock
    /\ ret' = ErrNone
    /\ UNCHANGED <<gen, clientUp, csClosed, torrents, recs, ts, waitList, pend,
                   cur, workers, nwt, async, mcall, magnetCache, torrentCache,
                   tsChanged, now, budget, panicked>>

\* torrent.NewClient fails ten times: the call returns the error
ConfigureFail ==
    /\ Running /\ elock.held /\ elock.pc = "client"
    /\ elock' = NoLock
    /\ ret' = ErrNewClient
    /\ UNCHANGED <<gen, clientUp, csClosed, config, torrents, recs, ts, waitList,
                   pend, cur, workers, nwt, async, mcall, magnetCache,
                   torrentCache, tsChanged, now, budget, panicked>>

\* SetConfig: e.config = c, without a lock and without touching the client
SetConfig(c) ==
    /\ Running /\ budget > 0
    /\ budget' = budget - 1
    /\ config' = c
    /\ UNCHANGED <<gen, clientUp, csClosed, elock, torrents, recs, ts, waitList,
                   pend, cur, workers, nwt, async, mcall, magnetCache,
                   torrentCache, tsChanged, now, ret, panicked>>

----------------------------------------------------------------------------
(* Add requests *)

newMagnetCacheFile(ih) == magnetCache \cup {ih}

newTorrentCacheFile(ih) == torrentCache \cup {ih}

removeMagnetCache(ih) == magnetCache \ {ih}

removeTorrentCache(ih) == torrentCache \ {ih}

Submit(ih, tp, src) ==
    pend' = [pend EXCEPT ![[ih |-> ih, tp |-> tp, src |-> src]] = @ + 1]

\* NewMagnet up to the call of newTorrentBySpec
NewMagnet(ih) ==
    /\ Running /\ budget > 0
    /\ budget' = budget - 1
    /\ magnetCache' = newMagnetCacheFile(ih)
    /\ Submit(ih, taskMagnet, "call")
    /\ UNCHANGED <<gen, clientUp, csClosed, config, elock, torrents, recs, ts,
                   waitList, cur, workers, nwt, async, mcall, torrentCache,
                   tsChanged, now, ret, panicked>>

\* NewTorrentByReader up to the call of newTorrentBySpec
NewTorrentByReader(ih) ==
    /\ Running /\ budget > 0
    /\ budget' = budget - 1
    /\ torrentCache' = newTorrentCacheFile(ih)
    /\ Submit(ih, taskTorrent, "call")
    /\ UNCHANGED <<gen, clientUp, csClosed, config, elock, torrents, recs, ts,
                   waitList, cur, workers, nwt, async, mcall, magnetCache,
                   tsChanged, now, ret, panicked>>

\* what metainfo.LoadFromFile and torrent.TorrentSpecFromMetaInfo make of a file
FileValid == "valid"
FileUnreadable == "unreadable"
FileMalformed == "malformed"
FileKinds == {FileValid, FileUnreadable, FileMalformed}

ErrLoadFile == "LoadFromFile failed"

\* NewTorrentByFilePath up to the call of newTorrentBySpec. A panic of
\* TorrentSpecFromMetaInfo is recovered by the deferred function, whose own
\* result is dropped: the call returns the zero value of its result, nil
NewTorrentByFilePath(ih, kind) ==
    /\ Running /\ budget > 0
    /\ budget' = budget - 1
    /\ torrentCache' = IF kind = FileUnreadable THEN torrentCache
                       ELSE newTorrentCacheFile(ih)
    /\ IF kind = FileValid
       THEN /\ Submit(ih, taskTorrent, "path")
            /\ UNCHANGED ret
       ELSE /\ ret' = IF kind = FileUnreadable THEN ErrLoadFile ELSE ErrNone
            /\ UNCHANGED pend
    /\ UNCHANGED <<gen, clientUp, csClosed, config, elock, torrents, recs, ts,
                   waitList, cur, workers, nwt, async, mcall, magnetCache,
                   tsChanged, now, panicked>>

\* the result a request hands to its caller; a goroutine's result goes nowhere
Return(err) == IF cur.src = "nwt" THEN ret ELSE err

\* newTorrentBySpec: takes e.taskMutex and evaluates isReadyAddTask. Without a
\* client e.client.Torrents() panics: the deferred Unlock frees e.taskMutex, and
\* the panic ends the process unless NewTorrentByFilePath recovers it and
\* returns nil
AddCheck(r) ==
    /\ Running /\ pend[r] > 0 /\ cur.pc = "idle"
    /\ pend' = [pend EXCEPT ![r] = @ - 1]
    /\ IF ~clientUp
       THEN /\ panicked' = (r.src # "path")
            /\ ret' = IF r.src = "path" THEN ErrNone ELSE ret
            /\ UNCHANGED cur
       ELSE /\ cur' = [pc |-> IF isReadyAddTask THEN "admit" ELSE "queue",
                       ih |-> r.ih, tp |-> r.tp, src |-> r.src, rec |-> 0]
            /\ UNCHANGED <<panicked, ret>>
    /\ UNCHANGED <<gen, clientUp, csClosed, config, elock, torrents, recs, ts,
                   waitList, workers, nwt, async, mcall, magnetCache,
                   torrentCache, tsChanged, now, budget>>

\* newTorrentBySpec, limit reached: the identity goes on the wait list (line
\* 224) unless the table knows it (line 226)
AddQueue ==
    /\ Running /\ cur.pc = "queue" /\ ~elock.held
    /\ IF ~isTaskInList(cur.ih)
       THEN /\ waitList' = pushWaitTask(cur.ih, cur.tp)
            /\ cur' = [cur EXCEPT !.pc = "pushed"]
       ELSE /\ waitList' = waitList
            /\ cur' = [cur EXCEPT !.pc = "known"]
    /\ UNCHANGED <<gen, clientUp, csClosed, config, elock, torrents, recs, ts,
                   pend, workers, nwt, async, mcall, magnetCache, torrentCache,
                   tsChanged, now, budget, ret, panicked>>

\* newTorrentBySpec, limit reached: the placeholder, then ErrMaxConnTasks
AddPlaceholder ==
    /\ Running /\ cur.pc \in {"pushed", "known"} /\ ~elock.held
    /\ recs' = upsertRecs(cur.ih, TRUE)
    /\ ts' = upsertTs(cur.ih)
    /\ ret' = Return(ErrMaxConnTasks)
    /\ cur' = Idle
    /\ UNCHANGED <<gen, clientUp, csClosed, config, elock, torrents, waitList,
                   pend, workers, nwt, async, mcall, magnetCache, torrentCache,
                   tsChanged, now, budget, panicked>>

\* newTorrentBySpec, slot free: the record of the task
AddUpsert ==
    /\ Running /\ cur.pc = "admit" /\ ~elock.held
    /\ recs' = upsertRecs(cur.ih, FALSE)
    /\ ts' = upsertTs(cur.ih)
    /\ cur' = [cur EXCEPT !.pc = "spec",
                          !.rec = IF ts[cur.ih] = 0 THEN Len(recs) + 1 ELSE ts[cur.ih]]
    /\ UNCHANGED <<gen, clientUp, csClosed, config, elock, torrents, waitList,
                   pend, workers, nwt, async, mcall, magnetCache, torrentCache,
                   tsChanged, now, budget, ret, panicked>>

\* newTorrentBySpec, slot free: AddTorrentSpec, which accepts the spec (ok) or
\* returns an error, and the worker. Without a client AddTorrentSpec panics
AddSpec(ok) ==
    /\ Running /\ cur.pc = "spec"
    /\ IF ~clientUp
       THEN /\ panicked' = (cur.src # "path")
            /\ ret' = IF cur.src = "path" THEN ErrNone ELSE ret
            /\ UNCHANGED <<torrents, workers>>
       ELSE IF ok
       THEN /\ torrents' = torrents \cup {cur.ih}
            /\ workers' = Append(workers, NewWorker(cur.rec, cur.ih))
            /\ ret' = Return(ErrNone)
            /\ UNCHANGED panicked
       ELSE /\ ret' = Return(ErrAddTorrentSpec)
            /\ UNCHANGED <<torrents, workers, panicked>>
    /\ cur' = Idle
    /\ UNCHANGED <<gen, clientUp, csClosed, config, elock, recs, ts, waitList,
                   pend, nwt, async, mcall, magnetCache, torrentCache,
                   tsChanged, now, budget>>

\* NextWaitTask: pops the head of the wait list and submits it again
NextWaitTask ==
    /\ Running /\ nwt > 0
    /\ nwt' = nwt - 1
    /\ IF waitList = <<>>
       THEN UNCHANGED <<waitList, pend, magnetCache, torrentCache>>
       ELSE /\ waitList' = Tail(waitList)
            /\ Submit(Head(waitList).ih, Head(waitList).tp, "nwt")
            /\ IF Head(waitList).tp = taskMagnet
               THEN /\ magnetCache' = newMagnetCacheFile(Head(waitList).ih)
                    /\ UNCHANGED torrentCache
               ELSE /\ torrentCache' = newTorrentCacheFile(Head(waitList).ih)
                    /\ UNCHANGED magnetCache
    /\ UNCHANGED <<gen, clientUp, csClosed, config, elock, torrents, recs, ts,
                   cur, workers, async, mcall, tsChanged, now, budget, ret,
                   panicked>>

----------------------------------------------------------------------------
(* DeleteTorrent *)

deleteTorrent(ih) == [ts EXCEPT ![ih] = 0]

DeleteErr(ih) == IF getTorrent(ih) = 0 THEN ErrMissingTorrent ELSE ErrNone

DeleteRecs(ih) ==
    IF getTorrent(ih) = 0 THEN recs
    ELSE [recs EXCEPT ![getTorrent(ih)].dropWait = TRUE]

DeleteWait(ih) == IF getTorrent(ih) = 0 THEN waitList ELSE waitListRemove(ih)

DeleteTs(ih) == IF getTorrent(ih) = 0 THEN ts ELSE deleteTorrent(ih)

DeleteTorrent(ih) ==
    /\ Running /\ budget > 0 /\ ~elock.held
    /\ budget' = budget - 1
    /\ ret' = DeleteErr(ih)
    /\ recs' = DeleteRecs(ih)
    /\ waitList' = DeleteWait(ih)
    /\ ts' = DeleteTs(ih)
    /\ UNCHANGED <<gen, clientUp, csClosed, config, elock, torrents, pend, cur,
                   workers, nwt, async, mcall, magnetCache, torrentCache,
                   tsChanged, now, panicked>>

----------------------------------------------------------------------------
(* The task worker: torrentEventProcessor *)

WorkerIdx == 1..Len(workers)

Dispatch(op, ih) == [async EXCEPT ![op, ih] = @ + 1]

updateOnGotInfo(t) ==
    IF t.hasInfo THEN t
    ELSE [t EXCEPT !.hasInfo = TRUE, !.Files = [f \in FileIdx |-> NewFile]]

\* the worker reaches a select: e.closeSync is read here
WorkerSelect(w) ==
    /\ Running /\ workers[w].pc \in {"start", "select"}
    /\ workers' = [workers EXCEPT ![w].cs = closeSync,
                                  ![w].pc = IF workers[w].pc = "start"
                                            THEN "waitinfo" ELSE "loop"]
    /\ UNCHANGED <<gen, clientUp, csClosed, config, elock, torrents, recs, ts,
                   waitList, pend, cur, nwt, async, mcall, magnetCache,
                   torrentCache, tsChanged, now, budget, ret, panicked>>

\* case <-e.closeSync, in either select
WorkerShutdown(w) ==
    /\ Running /\ workers[w].pc \in {"waitinfo", "loop"}
    /\ chanClosed(workers[w].cs)
    /\ torrents' = dropHandle(workers[w].ih, workers[w].gen)
    /\ workers' = Remove(workers, w)
    /\ UNCHANGED <<gen, clientUp, csClosed, config, elock, recs, ts, waitList,
                   pend, cur, nwt, async, mcall, magnetCache, torrentCache,
                   tsChanged, now, budget, ret, panicked>>

\* case <-t.dropWait, in either select
WorkerDrop(w) ==
    /\ Running /\ workers[w].pc \in {"waitinfo", "loop"}
    /\ recs[workers[w].rec].dropWait
    /\ torrents' = dropHandle(workers[w].ih, workers[w].gen)
    /\ nwt' = nwt + 1
    /\ workers' = Remove(workers, w)
    /\ UNCHANGED <<gen, clientUp, csClosed, config, elock, recs, ts, waitList,
                   pend, cur, async, mcall, magnetCache, torrentCache,
                   tsChanged, now, budget, ret, panicked>>

\* case <-tt.GotInfo(): the cache record is promoted and the files appear
WorkerGotInfo(w) ==
    /\ Running /\ workers[w].pc = "waitinfo"
    /\ magnetCache' = removeMagnetCache(workers[w].ih)
    /\ torrentCache' = newTorrentCacheFile(workers[w].ih)
    /\ recs' = [recs EXCEPT ![workers[w].rec] = updateOnGotInfo(@)]
    /\ workers' = [workers EXCEPT ![w].pc = "send"]
    /\ UNCHANGED <<gen, clientUp, csClosed, config, elock, torrents, ts,
                   waitList, pend, cur, nwt, async, mcall, tsChanged, now,
                   budget, ret, panicked>>

\* e.TsChanged <- struct{}{}, then the AutoStart dispatch
WorkerSend(w) ==
    /\ Running /\ workers[w].pc = "send"
    /\ ~tsChanged
    /\ tsChanged' = TRUE
    /\ IF config.AutoStart
       THEN /\ async["start", workers[w].ih] < MaxAsync
            /\ async' = Dispatch("start", workers[w].ih)
       ELSE UNCHANGED async
    /\ workers' = [workers EXCEPT ![w].pc = "select"]
    /\ UNCHANGED <<gen, clientUp, csClosed, config, elock, torrents, recs, ts,
                   waitList, pend, cur, nwt, mcall, magnetCache, torrentCache,
                   now, budget, ret, panicked>>

\* the statistics a tick refreshes: Done is not refreshed once set
updateStatus(t, done, ratio) ==
    [t EXCEPT !.Done = (t.Done \/ done), !.SeedRatio = ratio]

autoStopIgnoresManual(t) ==
    /\ config.SeedRatio > 0
    /\ t.SeedRatio > config.SeedRatio
    /\ t.Started
    /\ t.Done

\* taskRoutine, first rule
autoStop(t) ==
    /\ config.SeedRatio > 0
    /\ t.SeedRatio > config.SeedRatio
    /\ t.Started
    /\ ~t.ManualStarted
    /\ t.Done

\* taskRoutine, second rule
autoDelete(t) ==
    /\ config.RemoveTaskAfterStopped > 0 /\ config.SeedRatio > 0
    /\ t.SeedRatio >= config.SeedRatio /\ ~t.Started /\ t.Done
    /\ Since(t.StartedAt) > config.RemoveTaskAfterStopped

taskRoutine(t) ==
    [o \in AsyncOps, i \in Ids |->
        IF i = t.InfoHash /\ ((o = "stop" /\ autoStop(t)) \/ (o = "delete" /\ autoDelete(t)))
        THEN async[o, i] + 1 ELSE async[o, i]]

\* case <-timeTk.C
WorkerTick(w, done, ratio) ==
    /\ Running /\ workers[w].pc = "loop"
    /\ LET t == updateStatus(recs[workers[w].rec], done, ratio)
       IN /\ recs' = [recs EXCEPT ![workers[w].rec] = t]
          /\ async' = taskRoutine(t)
          /\ \A o \in AsyncOps : async'[o, t.InfoHash] <= MaxAsync
    /\ workers' = [workers EXCEPT ![w].pc = "select"]
    /\ UNCHANGED <<gen, clientUp, csClosed, config, elock, torrents, ts,
                   waitList, pend, cur, nwt, mcall, magnetCache, torrentCache,
                   tsChanged, now, budget, ret, panicked>>

\* an observer of e.TsChanged takes the value
ObserverDrain ==
    /\ Running /\ tsChanged
    /\ tsChanged' = FALSE
    /\ UNCHANGED <<gen, clientUp, csClosed, config, elock, torrents, recs, ts,
                   waitList, pend, cur, workers, nwt, async, mcall, magnetCache,
                   torrentCache, now, budget, ret, panicked>>

----------------------------------------------------------------------------
(* Start and stop of a task *)

StartErr(ih) ==
    IF getTorrent(ih) = 0 THEN ErrMissingTorrent
    ELSE IF recs[getTorrent(ih)].Started THEN ErrAlreadyStarted
    ELSE ErrNone

startedRec(t) ==
    [t EXCEPT !.Started = TRUE,
              !.StartedAt = now,
              !.Files = [f \in DOMAIN t.Files |->
                            [Started |-> TRUE,
                             priority |-> IF t.hasInfo THEN PiecePriorityNormal
                                          ELSE t.Files[f].priority]],
              !.upload = (t.hasInfo \/ t.upload),
              !.download = (t.hasInfo \/ t.download)]

StartRecsUnguarded(ih) ==
    IF getTorrent(ih) = 0 THEN recs
    ELSE [recs EXCEPT ![getTorrent(ih)] = startedRec(@)]

StartRecs(ih) ==
    IF StartErr(ih) # ErrNone THEN recs
    ELSE [recs EXCEPT ![getTorrent(ih)] = startedRec(@)]

StopErr(ih) ==
    IF getTorrent(ih) = 0 THEN ErrMissingTorrent
    ELSE IF ~recs[getTorrent(ih)].Started THEN ErrAlreadyStopped
    ELSE ErrNone

stoppedRec(t) ==
    [t EXCEPT !.Started = FALSE,
              !.StoppedAt = now,
              !.Files = [f \in DOMAIN t.Files |->
                            [Started |-> FALSE,
                             priority |-> IF t.hasInfo THEN PiecePriorityNone
                                          ELSE t.Files[f].priority]],
              !.upload = (~t.hasInfo /\ t.upload),
              !.download = (~t.hasInfo /\ t.download)]

StopRecs(ih) ==
    IF StopErr(ih) # ErrNone THEN recs
    ELSE [recs EXCEPT ![getTorrent(ih)] = stoppedRec(@)]

StartTorrent(ih) ==
    /\ Running /\ budget > 0 /\ ~elock.held
    /\ budget' = budget - 1
    /\ ret' = StartErr(ih)
    /\ recs' = StartRecs(ih)
    /\ UNCHANGED <<gen, clientUp, csClosed, config, elock, torrents, ts,
                   waitList, pend, cur, workers, nwt, async, mcall, magnetCache,
                   torrentCache, tsChanged, now, panicked>>

StopTorrent(ih) ==
    /\ Running /\ budget > 0 /\ ~elock.held
    /\ budget' = budget - 1
    /\ ret' = StopErr(ih)
    /\ recs' = StopRecs(ih)
    /\ UNCHANGED <<gen, clientUp, csClosed, config, elock, torrents, ts,
                   waitList, pend, cur, workers, nwt, async, mcall, magnetCache,
                   torrentCache, tsChanged, now, panicked>>

\* ManualStartTorrent: the StartTorrent call
ManualStartTorrent(ih) ==
    /\ Running /\ budget > 0 /\ ~elock.held /\ ih \notin mcall
    /\ budget' = budget - 1
    /\ recs' = StartRecs(ih)
    /\ IF StartErr(ih) = ErrNone
       THEN /\ mcall' = mcall \cup {ih}
            /\ UNCHANGED ret
       ELSE /\ ret' = StartErr(ih)
            /\ UNCHANGED mcall
    /\ UNCHANGED <<gen, clientUp, csClosed, config, elock, torrents, ts,
                   waitList, pend, cur, workers, nwt, async, magnetCache,
                   torrentCache, tsChanged, now, panicked>>

\* ManualStartTorrent: getTorrent again, then the flag under the task lock
ManualStartFlag(ih) ==
    /\ Running /\ ih \in mcall
    /\ mcall' = mcall \ {ih}
    /\ IF getTorrent(ih) = 0
       THEN /\ panicked' = TRUE
            /\ UNCHANGED <<recs, ret>>
       ELSE /\ recs' = [recs EXCEPT ![getTorrent(ih)].ManualStarted = TRUE]
            /\ ret' = ErrNone
            /\ UNCHANGED panicked
    /\ UNCHANGED <<gen, clientUp, csClosed, config, elock, torrents, ts,
                   waitList, pend, cur, workers, nwt, async, magnetCache,
                   torrentCache, tsChanged, now, budget>>

----------------------------------------------------------------------------
(* Start and stop of a file *)

StartFileErr(ih, f) ==
    IF getTorrent(ih) = 0 THEN ErrMissingTorrent
    ELSE IF f \notin DOMAIN recs[getTorrent(ih)].Files THEN ErrMissingFile
    ELSE IF recs[getTorrent(ih)].Files[f].Started THEN ErrFileAlreadyStarted
    ELSE ErrNone

StartFileRecs(ih, f) ==
    IF StartFileErr(ih, f) # ErrNone THEN recs
    ELSE [recs EXCEPT ![getTorrent(ih)].Started = TRUE,
                      ![getTorrent(ih)].Files[f] =
                          [Started |-> TRUE, priority |-> PiecePriorityNormal]]

StopFileErr(ih, f) ==
    IF getTorrent(ih) = 0 THEN ErrMissingTorrent
    ELSE IF f \notin DOMAIN recs[getTorrent(ih)].Files THEN ErrMissingFile
    ELSE IF ~recs[getTorrent(ih)].Files[f].Started THEN ErrFileAlreadyStopped
    ELSE ErrNone

StopFileRecs(ih, f) ==
    IF StopFileErr(ih, f) # ErrNone THEN recs
    ELSE [recs EXCEPT ![getTorrent(ih)].Files[f] =
                          [Started |-> FALSE, priority |-> PiecePriorityNone]]

allStoppedIgnoresOthers(ih, f) == StopFileErr(ih, f) = ErrNone

\* StopFile: allStopped, read after the file was stopped
allStopped(ih, f) ==
    /\ StopFileErr(ih, f) = ErrNone
    /\ \A g \in DOMAIN recs[getTorrent(ih)].Files :
          g # f => ~recs[getTorrent(ih)].Files[g].Started

StartFile(ih, f) ==
    /\ Running /\ budget > 0
    /\ budget' = budget - 1
    /\ ret' = StartFileErr(ih, f)
    /\ recs' = StartFileRecs(ih, f)
    /\ UNCHANGED <<gen, clientUp, csClosed, config, elock, torrents, ts,
                   waitList, pend, cur, workers, nwt, async, mcall, magnetCache,
                   torrentCache, tsChanged, now, panicked>>

StopFile(ih, f) ==
    /\ Running /\ budget > 0
    /\ budget' = budget - 1
    /\ ret' = StopFileErr(ih, f)
    /\ recs' = StopFileRecs(ih, f)
    /\ IF allStopped(ih, f)
       THEN /\ async["stop", ih] < MaxAsync
            /\ async' = Dispatch("stop", ih)
       ELSE UNCHANGED async
    /\ UNCHANGED <<gen, clientUp, csClosed, config, elock, torrents, ts,
                   waitList, pend, cur, workers, nwt, mcall, magnetCache,
                   torrentCache, tsChanged, now, panicked>>

----------------------------------------------------------------------------
(* Dispatched goroutines *)

\* go e.StartTorrent(ih)
AsyncStart(ih) ==
    /\ Running /\ async["start", ih] > 0 /\ ~elock.held
    /\ async' = [async EXCEPT !["start", ih] = @ - 1]
    /\ recs' = StartRecs(ih)
    /\ UNCHANGED <<gen, clientUp, csClosed, config, elock, torrents, ts,
                   waitList, pend, cur, workers, nwt, mcall, magnetCache,
                   torrentCache, tsChanged, now, budget, ret, panicked>>

\* go e.StopTorrent(ih)
AsyncStop(ih) ==
    /\ Running /\ async["stop", ih] > 0 /\ ~elock.held
    /\ async' = [async EXCEPT !["stop", ih] = @ - 1]
    /\ recs' = StopRecs(ih)
    /\ UNCHANGED <<gen, clientUp, csClosed, config, elock, torrents, ts,
                   waitList, pend, cur, workers, nwt, mcall, magnetCache,
                   torrentCache, tsChanged, now, budget, ret, panicked>>

\* go func() { e.DeleteTorrent(ih); e.RemoveCache(ih) }(): the DeleteTorrent
\* half, under e.Lock; the goroutine discards its error and goes on to
\* RemoveCache
AsyncDelete(ih) ==
    /\ Running /\ async["delete", ih] > 0 /\ ~elock.held
    /\ async' = [async EXCEPT !["delete", ih] = @ - 1, !["purge", ih] = @ + 1]
    /\ recs' = DeleteRecs(ih)
    /\ waitList' = DeleteWait(ih)
    /\ ts' = DeleteTs(ih)
    /\ UNCHANGED <<gen, clientUp, csClosed, config, elock, torrents, pend, cur,
                   workers, nwt, mcall, magnetCache, torrentCache, tsChanged,
                   now, budget, ret, panicked>>

\* the RemoveCache half of the goroutine, which takes no lock
AsyncPurge(ih) ==
    /\ Running /\ async["purge", ih] > 0
    /\ async' = [async EXCEPT !["purge", ih] = @ - 1]
    /\ magnetCache' = removeMagnetCache(ih)
    /\ torrentCache' = removeTorrentCache(ih)
    /\ UNCHANGED <<gen, clientUp, csClosed, config, elock, torrents, recs, ts,
                   waitList, pend, cur, workers, nwt, mcall, tsChanged, now,
                   budget, ret, panicked>>

\* RemoveCache called from outside: both cache records of the identity go
RemoveCache(ih) ==
    /\ Running /\ budget > 0
    /\ budget' = budget - 1
    /\ magnetCache' = removeMagnetCache(ih)
    /\ torrentCache' = removeTorrentCache(ih)
    /\ UNCHANGED <<gen, clientUp, csClosed, config, elock, torrents, recs, ts,
                   waitList, pend, cur, workers, nwt, async, mcall, tsChanged,
                   now, ret, panicked>>

\* time passes
AdvanceTime ==
    /\ Running /\ now < MaxTime
    /\ now' = now + 1
    /\ UNCHANGED <<gen, clientUp, csClosed, config, elock, torrents, recs, ts,
                   waitList, pend, cur, workers, nwt, async, mcall, magnetCache,
                   torrentCache, tsChanged, budget, ret, panicked>>

----------------------------------------------------------------------------
(* Specifications *)

\* admission, deletion, workers and reconfiguration
Init == InitBase /\ budget = MaxCallsAdm

Lifecycle ==
    \/ \E r \in Reqs : AddCheck(r)
    \/ AddQueue
    \/ AddPlaceholder
    \/ AddUpsert
    \/ \E ok \in BOOLEAN : AddSpec(ok)
    \/ NextWaitTask
    \/ \E w \in WorkerIdx : WorkerSelect(w)
    \/ \E w \in WorkerIdx : WorkerShutdown(w)
    \/ \E w \in WorkerIdx : WorkerDrop(w)
    \/ \E w \in WorkerIdx : WorkerGotInfo(w)
    \/ \E w \in WorkerIdx : WorkerSend(w)
    \/ ObserverDrain

Next ==
    \/ \E c \in AdmConfigs : ConfigureInvalid(c)
    \/ \E c \in AdmConfigs : ConfigureTeardown(c)
    \/ ConfigureRange
    \/ \E ih \in Ids : ConfigureDrop(ih)
    \/ ConfigureClose
    \/ ConfigureClear
    \/ ConfigureRebuild
    \/ ConfigureSignal
    \/ ConfigureCommit
    \/ ConfigureFail
    \/ \E c \in AdmConfigs : SetConfig(c)
    \/ \E ih \in Ids : NewMagnet(ih)
    \/ \E ih \in Ids : NewTorrentByReader(ih)
    \/ \E ih \in Ids : DeleteTorrent(ih)
    \/ \E ih \in Ids : RemoveCache(ih)
    \/ \E w \in WorkerIdx : WorkerTick(w, FALSE, 0)
    \/ Lifecycle

Spec == Init /\ [][Next]_vars

\* the same engine when every Configure keeps the limit of the first one and
\* nobody calls SetConfig
NextLimit ==
    \/ \E c \in AdmConfigs : ConfigureInvalid(c)
    \/ \E c \in AdmConfigs :
          /\ gen = 0 \/ c.MaxConcurrentTask = config.MaxConcurrentTask
          /\ ConfigureTeardown(c)
    \/ ConfigureRange
    \/ \E ih \in Ids : ConfigureDrop(ih)
    \/ ConfigureClose
    \/ ConfigureClear
    \/ ConfigureRebuild
    \/ ConfigureSignal
    \/ ConfigureCommit
    \/ ConfigureFail
    \/ \E ih \in Ids : NewMagnet(ih)
    \/ \E ih \in Ids : NewTorrentByReader(ih)
    \/ \E ih \in Ids, k \in FileKinds : NewTorrentByFilePath(ih, k)
    \/ \E ih \in Ids : DeleteTorrent(ih)
    \/ \E w \in WorkerIdx : WorkerTick(w, FALSE, 0)
    \/ Lifecycle

SpecLimit == Init /\ [][NextLimit]_vars

\* goroutines that can run do run; a select with a ready case takes it sooner or
\* later (Go picks among ready cases at random)
MaxWorkers == MaxCallsAdm

Fairness ==
    /\ \A w \in 1..MaxWorkers :
          /\ WF_vars(w \in WorkerIdx /\ WorkerSelect(w))
          /\ SF_vars(w \in WorkerIdx /\ WorkerDrop(w))
          /\ SF_vars(w \in WorkerIdx /\ WorkerSend(w))
    /\ WF_vars(NextWaitTask)
    /\ WF_vars(\E r \in Reqs : AddCheck(r))
    /\ WF_vars(AddQueue) /\ WF_vars(AddPlaceholder) /\ WF_vars(AddUpsert)
    /\ WF_vars(\E ok \in BOOLEAN : AddSpec(ok))

\* an engine configured once with a limit of one task, fed two identities; its
\* closeSync is never closed, so no worker takes the shutdown case
QueueIds == {1, 2}

QueueConfig == MkConfig(1, 1, 0, 0, FALSE)

NextQueue ==
    \/ gen = 0 /\ ConfigureTeardown(QueueConfig)
    \/ ConfigureRebuild
    \/ ConfigureSignal
    \/ ConfigureCommit
    \/ \E ih \in QueueIds : NewMagnet(ih)
    \/ \E ih \in QueueIds : DeleteTorrent(ih)
    \/ \E w \in WorkerIdx : WorkerTick(w, FALSE, 0)
    \/ \E r \in Reqs : AddCheck(r)
    \/ AddQueue
    \/ AddPlaceholder
    \/ AddUpsert
    \/ \E ok \in BOOLEAN : AddSpec(ok)
    \/ NextWaitTask
    \/ \E w \in WorkerIdx : WorkerSelect(w)
    \/ \E w \in WorkerIdx : WorkerDrop(w)
    \/ \E w \in WorkerIdx : WorkerGotInfo(w)
    \/ \E w \in WorkerIdx : WorkerSend(w)
    \/ ObserverDrain

\* the same engine driven by one caller that makes its calls one after the
\* other (each call returns before the next begins), with the calls that fill
\* TsChanged before A and B arrive; the engine's goroutines are scheduled fairly
\* and nothing obliges a receiver to read TsChanged
InitHandover == InitBase /\ budget = MaxCallsHandover

CallerIdle ==
    /\ ~elock.held
    /\ cur.src # "call"
    /\ \A r \in Reqs : r.src = "call" => pend[r] = 0

NextHandover ==
    \/ gen = 0 /\ CallerIdle /\ ConfigureTeardown(QueueConfig)
    \/ ConfigureRebuild
    \/ ConfigureSignal
    \/ ConfigureCommit
    \/ \E ih \in QueueIds : CallerIdle /\ NewMagnet(ih)
    \/ \E ih \in QueueIds : CallerIdle /\ DeleteTorrent(ih)
    \/ \E w \in WorkerIdx : WorkerTick(w, FALSE, 0)
    \/ \E r \in Reqs : AddCheck(r)
    \/ AddQueue
    \/ AddPlaceholder
    \/ AddUpsert
    \/ \E ok \in BOOLEAN : AddSpec(ok)
    \/ NextWaitTask
    \/ \E w \in WorkerIdx : WorkerSelect(w)
    \/ \E w \in WorkerIdx : WorkerDrop(w)
    \/ \E w \in WorkerIdx : WorkerGotInfo(w)
    \/ \E w \in WorkerIdx : WorkerSend(w)
    \/ ObserverDrain

FairSpecHandover == InitHandover /\ [][NextHandover]_vars /\ Fairness

\* the same engine with room for one more call of the caller
InitQueue == InitBase /\ budget = MaxCallsQueue

SpecQueue == InitQueue /\ [][NextQueue]_vars

\* an engine fed torrent files by path, configured and reconfigured meanwhile
NextLoad ==
    \/ \E c \in AdmConfigs : ConfigureTeardown(c)
    \/ ConfigureRange
    \/ \E ih \in Ids : ConfigureDrop(ih)
    \/ ConfigureClose
    \/ ConfigureClear
    \/ ConfigureRebuild
    \/ ConfigureSignal
    \/ ConfigureCommit
    \/ ConfigureFail
    \/ \E ih \in Ids, k \in FileKinds : NewTorrentByFilePath(ih, k)
    \/ \E r \in Reqs : AddCheck(r)
    \/ AddQueue
    \/ AddPlaceholder
    \/ AddUpsert
    \/ \E ok \in BOOLEAN : AddSpec(ok)
    \/ \E w \in WorkerIdx : WorkerSelect(w)
    \/ \E w \in WorkerIdx : WorkerShutdown(w)
    \/ \E w \in WorkerIdx : WorkerGotInfo(w)
    \/ \E w \in WorkerIdx : WorkerSend(w)
    \/ ObserverDrain

SpecLoad == Init /\ [][NextLoad]_vars

\* an engine configured once, without a limit, whose tasks stay: task and file operations, statistics and the ratio policy
TaskIds == {1}

InitTask == InitBase /\ budget = MaxCallsTask

NextTask ==
    \/ \E c \in TaskConfigs : gen = 0 /\ ConfigureTeardown(c)
    \/ ConfigureRebuild
    \/ ConfigureSignal
    \/ ConfigureCommit
    \/ \E ih \in TaskIds : NewMagnet(ih)
    \/ \E ih \in TaskIds : StartTorrent(ih)
    \/ \E ih \in TaskIds : StopTorrent(ih)
    \/ \E ih \in TaskIds : ManualStartTorrent(ih)
    \/ \E ih \in TaskIds : ManualStartFlag(ih)
    \/ \E ih \in TaskIds, f \in FileIdx : StartFile(ih, f)
    \/ \E ih \in TaskIds, f \in FileIdx : StopFile(ih, f)
    \/ \E ih \in TaskIds : AsyncStart(ih)
    \/ \E ih \in TaskIds : AsyncStop(ih)
    \/ now < MaxTime - 1 /\ AdvanceTime
    \/ \E r \in Reqs : AddCheck(r)
    \/ AddUpsert
    \/ \E ok \in BOOLEAN : AddSpec(ok)
    \/ \E w \in WorkerIdx : WorkerSelect(w)
    \/ \E w \in WorkerIdx : WorkerGotInfo(w)
    \/ \E w \in WorkerIdx : WorkerSend(w)
    \/ \E w \in WorkerIdx, d \in BOOLEAN, r \in Ratios : WorkerTick(w, d, r)
    \/ ObserverDrain

SpecTask == InitTask /\ [][NextTask]_vars

\* a dispatched `go e.StopTorrent` runs once e.Lock is free
FairSpecTask == SpecTask /\ \A ih \in TaskIds : WF_vars(AsyncStop(ih))

\* an engine configured once with a ratio threshold and a removal delay: one
\* auto-started task, its ticks, the clock, and the dispatched stop and delete
PolicyConfig == MkConfig(1, 0, RatioThreshold, RemoveAfter, TRUE)

InitPolicy == InitBase /\ budget = MaxCallsPolicy

NextPolicy ==
    \/ gen = 0 /\ ConfigureTeardown(PolicyConfig)
    \/ ConfigureRebuild
    \/ ConfigureSignal
    \/ ConfigureCommit
    \/ \E ih \in TaskIds : NewMagnet(ih)
    \/ \E ih \in TaskIds : StopTorrent(ih)
    \/ \E ih \in TaskIds : AsyncStart(ih)
    \/ \E ih \in TaskIds : AsyncStop(ih)
    \/ \E ih \in TaskIds : AsyncDelete(ih)
    \/ \E ih \in TaskIds : AsyncPurge(ih)
    \/ AdvanceTime
    \/ \E r \in Reqs : AddCheck(r)
    \/ AddUpsert
    \/ \E ok \in BOOLEAN : AddSpec(ok)
    \/ NextWaitTask
    \/ \E w \in WorkerIdx : WorkerSelect(w)
    \/ \E w \in WorkerIdx : WorkerDrop(w)
    \/ \E w \in WorkerIdx : WorkerGotInfo(w)
    \/ \E w \in WorkerIdx : WorkerSend(w)
    \/ \E w \in WorkerIdx, d \in BOOLEAN, r \in Ratios : WorkerTick(w, d, r)
    \/ ObserverDrain

SpecPolicy == InitPolicy /\ [][NextPolicy]_vars

----------------------------------------------------------------------------
(* Admission *)

EmptyTable == [i \in Ids |-> 0]

\* a step of AddQueue: the request found the limit reached and went past the
\* wait list
PushStep == cur.pc = "queue" /\ cur'.pc \in {"pushed", "known"}

\* a step of AddPlaceholder: the request that held e.taskMutex returned
\* ErrMaxConnTasks
QueueStep == cur.pc \in {"pushed", "known"} /\ cur'.pc = "idle"

\* the protocol client never holds more torrents than a positive
\* MaxConcurrentTask
ActiveBounded ==
    config.MaxConcurrentTask > 0
        => Cardinality(torrents) <= config.MaxConcurrentTask

\* C1 as stated: while the positive MaxConcurrentTask stays what it is, the
\* protocol client never holds more torrents than the limit, whatever the
\* interleaving of adds (NewMagnet, NewTorrentByReader, NewTorrentByFilePath),
\* deletes, re-admissions and reconfigurations with the same limit; and an add
\* request evaluated while the limit is reached leaves its identity on the wait
\* list, and returns leaving a placeholder record and no new handle or worker.
C1_ActiveBounded ==
    /\ []ActiveBounded
    /\ [][PushStep => InWaitList(cur.ih)']_vars
    /\ [][QueueStep
            => /\ ts'[cur.ih] # 0
               /\ recs'[ts'[cur.ih]].IsQueueing
               /\ torrents' = torrents
               /\ workers' = workers]_vars

----------------------------------------------------------------------------
(* Deleting a queued task *)

\* the wait list, or a re-admission on its way from it, holds the identity
QueueHolds(ih) ==
    \/ InWaitList(ih)
    \/ \E r \in Reqs : r.ih = ih /\ r.src = "nwt" /\ pend[r] > 0
    \/ (cur.ih = ih /\ cur.src = "nwt")

\* a queued task: a placeholder record whose identity the client does not hold,
\* waiting on the list or popped from it for a re-admission not yet completed
QueuedTask(ih) ==
    /\ ts[ih] # 0
    /\ recs[ts[ih]].IsQueueing
    /\ ih \notin torrents
    /\ QueueHolds(ih)

\* C3 as stated: DeleteTorrent on a queued task returns no error, takes the
\* identity out of the task table and out of queue processing (the wait list and
\* the re-admissions that come from it), and leaves the protocol client and the
\* workers as they were; from then on queue processing holds the identity again
\* only after a caller's new add request found the limit reached, so the deleted
\* identity is never admitted by later queue processing.
C3_DeleteQueued ==
    /\ [][\A ih \in Ids :
            (DeleteTorrent(ih) /\ QueuedTask(ih))
            => /\ ret' = ErrNone
               /\ ts'[ih] = 0
               /\ ~QueueHolds(ih)'
               /\ recs'[ts[ih]].dropWait
               /\ torrents' = torrents
               /\ workers' = workers
               /\ clientUp' = clientUp]_vars
    /\ [][\A ih \in Ids :
            (~QueueHolds(ih) /\ QueueHolds(ih)')
            => (PushStep /\ cur.ih = ih /\ cur.src # "nwt")]_vars

----------------------------------------------------------------------------
(* Reconfiguration *)

\* Configure forgets the closed client and replaces the task table
ClearStep == elock.held /\ elock.pc = "clear" /\ elock'.pc = "client"

\* Configure returns nil: the last step of a call that holds e.Lock
ConfigureReturn == elock.held /\ ~elock'.held /\ clientUp'

\* C9 as stated: after a successful Configure on an engine that had a client, the
\* task table is empty and the dropWait of every task that was active is closed.
C9_DropSignalsFired ==
    [][(ConfigureReturn /\ elock.had)
        => /\ ts' = EmptyTable
           /\ \A r \in elock.prev : recs'[r].dropWait]_vars

\* C9 amended: by the time a Configure on an engine that had a client has
\* forgotten the client, the task table is empty and the closeSync channel the old
\* workers wait on is closed; when it returns nil the task table is still empty
\* and the dropWait of every task that was active is still open: reconfiguration
\* ends the workers by shutdown, not by drop.
C9_TableClearedByShutdown ==
    /\ [][ClearStep
            => /\ ts' = EmptyTable
               /\ ~clientUp'
               /\ chanClosed(closeSync)'
               /\ \A w \in WorkerIdx :
                     workers[w].cs = closeSync => chanClosed(workers[w].cs)']_vars
    /\ [][(ConfigureReturn /\ elock.had)
            => /\ ts' = EmptyTable
               /\ \A r \in elock.prev : ~recs'[r].dropWait]_vars

\* a reconfigured engine with the worker of a formerly active task still running
C9_Witness ==
    /\ gen >= 2 /\ ~elock.held /\ clientUp /\ ret = ErrNone
    /\ ts = EmptyTable
    /\ \E w \in WorkerIdx :
          /\ workers[w].gen < gen
          /\ workers[w].cs < gen /\ workers[w].cs # 0
          /\ ~recs[workers[w].rec].dropWait

----------------------------------------------------------------------------
(* Resume cache *)

\* a step of WorkerGotInfo by worker w
GotInfoStep(w) ==
    /\ Len(workers') = Len(workers)
    /\ workers[w].pc = "waitinfo" /\ workers'[w].pc = "send"

\* C10: every NewMagnet leaves a minimal record before admission is attempted;
\* once a worker has processed metadata-ready the identity has a complete record
\* and no minimal one; and no identity ever has both a minimal and a complete
\* record.
C10_OneRecordPerIdentity ==
    /\ [][\A ih \in Ids : NewMagnet(ih) => ih \in magnetCache']_vars
    /\ [][\A w \in WorkerIdx :
            GotInfoStep(w) => /\ workers[w].ih \in torrentCache'
                              /\ workers[w].ih \notin magnetCache']_vars
    /\ [](clientUp => \A ih \in Ids : ~(ih \in magnetCache /\ ih \in torrentCache))

----------------------------------------------------------------------------
(* Start and stop *)

\* C4: StartTorrent on a started task returns "Already started" and StopTorrent on
\* a stopped task returns "Already stopped"; either way no field of any task
\* (flags, timestamps, files, priorities, upload and download permission) changes.
\* The same holds when the call runs as a dispatched goroutine.
C4_GuardedStartStop ==
    [][\A ih \in Ids :
        /\ (StartTorrent(ih) /\ ts[ih] # 0 /\ recs[ts[ih]].Started)
             => (ret' = ErrAlreadyStarted /\ recs' = recs)
        /\ (StopTorrent(ih) /\ ts[ih] # 0 /\ ~recs[ts[ih]].Started)
             => (ret' = ErrAlreadyStopped /\ recs' = recs)
        /\ (AsyncStart(ih) /\ ts[ih] # 0 /\ recs[ts[ih]].Started) => recs' = recs
        /\ (AsyncStop(ih) /\ ts[ih] # 0 /\ ~recs[ts[ih]].Started) => recs' = recs]_vars

\* a second start was refused after the clock moved on from the first
C4_Witness ==
    /\ ret = ErrAlreadyStarted
    /\ \E ih \in Ids :
          /\ ts[ih] # 0
          /\ recs[ts[ih]].Started /\ recs[ts[ih]].hasInfo
          /\ recs[ts[ih]].StartedAt # 0 /\ recs[ts[ih]].StartedAt < now

\* C5: StartFile on a file of a task that is not started starts that file only:
\* the task's Started flag stays false.
C5_StartFileLeavesTaskStopped ==
    [][\A ih \in Ids, f \in FileIdx :
        (StartFile(ih, f) /\ StartFileErr(ih, f) = ErrNone /\ ~recs[ts[ih]].Started)
        => /\ recs'[ts[ih]].Files[f].Started
           /\ recs'[ts[ih]].Files[f].priority = PiecePriorityNormal
           /\ ~recs'[ts[ih]].Started]_vars

----------------------------------------------------------------------------
(* The ratio policy *)

\* a step of WorkerTick by worker w
TickStep(w) ==
    /\ Len(workers') = Len(workers)
    /\ workers[w].pc = "loop" /\ workers'[w].pc = "select"

StopDispatched(ih) == async'["stop", ih] = async["stop", ih] + 1

\* C7: a tick dispatches StopTorrent for its task exactly when the SeedRatio
\* threshold is positive and the task, with the statistics the tick has just
\* refreshed, is Started, not ManualStarted, Done and above the threshold; a tick
\* that does not dispatch leaves the pending stops as they were.
C7_AutoStopIff ==
    [][\A w \in WorkerIdx :
        TickStep(w) =>
          LET t == recs'[workers[w].rec]
          IN /\ StopDispatched(t.InfoHash)
                  <=> (/\ config.SeedRatio > 0
                       /\ t.Started /\ ~t.ManualStarted /\ t.Done
                       /\ t.SeedRatio > config.SeedRatio)
             /\ (~StopDispatched(t.InfoHash)
                  => async'["stop", t.InfoHash] = async["stop", t.InfoHash])]_vars

\* a tick has just dispatched the stop of a started, finished task over the ratio
C7_Witness ==
    /\ config.SeedRatio > 0
    /\ \E w \in WorkerIdx :
          /\ workers[w].pc = "select"
          /\ async["stop", workers[w].ih] > 0
          /\ LET t == recs[workers[w].rec]
             IN /\ t.Started /\ ~t.ManualStarted /\ t.Done
                /\ t.SeedRatio > config.SeedRatio
                /\ \A f \in DOMAIN t.Files : t.Files[f].Started

\* C8: once ManualStartTorrent has started a task (Started set by its StartTorrent
\* call, whether or not the ManualStarted flag is written yet), no tick dispatches
\* an auto-stop for that task.
C8_ManualNeverAutoStopped ==
    [][\A w \in WorkerIdx :
        (/\ TickStep(w)
         /\ recs'[workers[w].rec].Started
         /\ ts[workers[w].ih] = workers[w].rec
         /\ (workers[w].ih \in mcall \/ recs'[workers[w].rec].ManualStarted))
        => ~StopDispatched(workers[w].ih)]_vars

----------------------------------------------------------------------------
(* Re-admission after a delete *)

\* limit 1: a was admitted and has just been deleted, b waits with a placeholder
\* and no handle, and no add request is under way
DeletedWithQueue(a, b) ==
    /\ Running /\ clientUp /\ ~elock.held
    /\ config.MaxConcurrentTask = 1
    /\ a # b
    /\ ts[a] = 0 /\ a \in torrents
    /\ Len(workers) = 1
    /\ workers[1].ih = a /\ workers[1].gen = gen /\ recs[workers[1].rec].dropWait
    /\ Len(waitList) = 1 /\ waitList[1].ih = b
    /\ ts[b] # 0 /\ recs[ts[b]].IsQueueing /\ b \notin torrents
    /\ \A r \in Reqs : pend[r] = 0
    /\ cur = Idle /\ nwt = 0

\* b is handed to the client, a worker of the current client runs for it, and
\* it left the wait list
Readmitted(b) ==
    /\ b \in torrents
    /\ ~InWaitList(b)
    /\ ts[b] # 0 /\ ~recs[ts[b]].IsQueueing
    /\ \E w \in WorkerIdx : workers[w].ih = b /\ workers[w].gen = gen

\* C2 as stated: limit 1, A admitted, B queued: after DeleteTorrent(A), under fair
\* scheduling of the engine's goroutines and as long as the caller does nothing
\* more, B becomes active (in the client, with a worker) and is no longer on the
\* wait list. Configure, the two adds and the delete have used four of the
\* caller's calls by then.
C2_DeleteAdmitsNext ==
    \A a \in QueueIds : \A b \in QueueIds \ {a}, n \in 0..(MaxCallsHandover - 4) :
        (DeletedWithQueue(a, b) /\ budget = n) ~> (Readmitted(b) \/ budget < n)

----------------------------------------------------------------------------
(* The cascade from the last file to the task *)

\* the last started file of a started task was stopped and the task-level stop
\* is dispatched; no start is pending
LastFileStopped(ih) ==
    /\ Running
    /\ ts[ih] # 0
    /\ recs[ts[ih]].Started /\ recs[ts[ih]].hasInfo
    /\ \A f \in DOMAIN recs[ts[ih]].Files : ~recs[ts[ih]].Files[f].Started
    /\ async["stop", ih] > 0 /\ async["start", ih] = 0
    /\ \A w \in WorkerIdx : workers[w].pc \in {"select", "loop"}
    /\ \A r \in Reqs : pend[r] = 0
    /\ cur = Idle

TaskStopped(ih) ==
    /\ ts[ih] # 0
    /\ ~recs[ts[ih]].Started /\ recs[ts[ih]].StoppedAt # 0
    /\ \A f \in DOMAIN recs[ts[ih]].Files :
          /\ ~recs[ts[ih]].Files[f].Started
          /\ recs[ts[ih]].Files[f].priority = PiecePriorityNone

\* C6: a successful StopFile on a started task dispatches a task-level stop
\* exactly when no other file of the task is still started; and once the last
\* file is stopped the task, under fair scheduling and without an intervening
\* start, reaches Started = false with StoppedAt set and every file stopped.
C6_LastFileStopsTask ==
    /\ [][\A ih \in TaskIds, f \in FileIdx :
            (StopFile(ih, f) /\ StopFileErr(ih, f) = ErrNone /\ recs[ts[ih]].Started)
            => /\ StopDispatched(ih)
                    <=> (\A g \in DOMAIN recs[ts[ih]].Files :
                            g # f => ~recs[ts[ih]].Files[g].Started)
               /\ (~StopDispatched(ih) => async' = async)]_vars
    /\ \A ih \in TaskIds, n \in 0..MaxCallsTask :
          (LastFileStopped(ih) /\ budget = n) ~> (TaskStopped(ih) \/ budget < n)

\* both files were stopped one after the other, without a ratio policy that
\* could have dispatched the stop
C6_Witness ==
    /\ config.SeedRatio = 0
    /\ ret = ErrNone
    /\ \E ih \in TaskIds : LastFileStopped(ih) /\ Len(recs[ts[ih]].Files) = NumFiles

----------------------------------------------------------------------------
(* Cache records on delete and on shutdown *)

\* C11: after a successful DeleteTorrent(id) the cache holds no record, minimal
\* or complete, for id; no step of a Configure call (teardown, new client, new
\* closeSync, commit or failure) removes a cache record.
C11_DeletePurgesCache ==
    /\ [][\A ih \in Ids :
            (DeleteTorrent(ih) /\ ts[ih] # 0)
            => (ih \notin magnetCache' /\ ih \notin torrentCache')]_vars
    /\ [][(elock' # elock)
            => (magnetCache' = magnetCache /\ torrentCache' = torrentCache)]_vars

----------------------------------------------------------------------------
(* Identities already known to the engine *)

\* C12: an add request of a caller for an identity that is on the wait list,
\* evaluated while the limit is reached, leaves the wait list as it was and
\* returns ErrTaskExists.
C12_QueuedAddReturnsExists ==
    /\ [][(PushStep /\ cur.src # "nwt" /\ InWaitList(cur.ih))
            => waitList' = waitList]_vars
    /\ [][(QueueStep /\ cur.src # "nwt" /\ cur.pc = "known" /\ InWaitList(cur.ih))
            => ret' = ErrTaskExists]_vars

\* C13: no identity is on the wait list twice, and no identity the client holds
\* is on the wait list or marked as queueing.
C13_IdentityUnique ==
    /\ \A i, j \in 1..Len(waitList) : waitList[i].ih = waitList[j].ih => i = j
    /\ \A ih \in torrents :
          /\ ~InWaitList(ih)
          /\ ts[ih] # 0 => ~recs[ts[ih]].IsQueueing

----------------------------------------------------------------------------
(* The change notification *)

\* C14: the send on e.TsChanged never blocks its worker: a worker that has
\* processed metadata-ready can always take its next step, whether or not the
\* single slot of the channel is full.
C14_SendNeverBlocks ==
    \A w \in WorkerIdx :
        (Running /\ workers[w].pc = "send") => ENABLED WorkerSend(w)

----------------------------------------------------------------------------
(* The removal policy *)

DeleteDispatched(ih) == async'["delete", ih] = async["delete", ih] + 1

\* C15: a tick dispatches the auto-delete of its task only when the ratio
\* threshold and the removal delay are both positive, the task has reached the
\* threshold, is stopped and done, and more than the removal delay has passed
\* since its StoppedAt; a task stopped less than the delay ago is not deleted,
\* however long ago it was started.
C15_AutoDeleteAfterStop ==
    [][\A w \in WorkerIdx :
        (TickStep(w) /\ DeleteDispatched(workers[w].ih))
        => LET t == recs'[workers[w].rec]
           IN /\ config.RemoveTaskAfterStopped > 0 /\ config.SeedRatio > 0
              /\ t.SeedRatio >= config.SeedRatio
              /\ ~t.Started /\ t.Done
              /\ Since(t.StoppedAt) > config.RemoveTaskAfterStopped]_vars

----------------------------------------------------------------------------
(* Workers and reconfiguration *)

\* C16: every release of a handle by a worker (tt.Drop on drop or on shutdown) is
\* the only release of that handle: when the worker calls it the client that
\* issued the handle is still up and still holds the torrent.
C16_ReleasedOnce ==
    [][\A w \in WorkerIdx :
        (WorkerShutdown(w) \/ WorkerDrop(w))
        => (clientUp /\ workers[w].gen = gen /\ workers[w].ih \in torrents)]_vars

\* C17: no worker of an old client waits in a select on the closeSync channel of
\* the new configuration: a waiting worker of an earlier generation holds a closed
\* channel and can only shut down.
C17_NoOldWorkerOnNewSignal ==
    \A w \in WorkerIdx :
        (workers[w].gen < gen /\ workers[w].pc \in {"waitinfo", "loop"})
        => chanClosed(workers[w].cs)

\* C18: once the engine has been configured, every add request that evaluates
\* admission finds a whole engine: a client, an open closeSync, and no Configure
\* between its teardown and its commit.
C18_AddSeesWholeEngine ==
    [][(gen > 0 /\ \E r \in Reqs : AddCheck(r))
        => (clientUp /\ ~csClosed /\ ~elock.held)]_vars

----------------------------------------------------------------------------
(* Torrent files that do not parse *)

\* C19: when the parse of the file panics, NewTorrentByFilePath returns an error
\* that is not nil, and no task is admitted or queued for the file.
C19_ParseFaultIsError ==
    [][\A ih \in Ids :
        NewTorrentByFilePath(ih, FileMalformed)
        => /\ ret' # ErrNone
           /\ pend' = pend /\ ts' = ts /\ waitList' = waitList
           /\ torrents' = torrents]_vars

----------------------------------------------------------------------------
(* Order of admission from the wait list *)

\* a step of AddSpec in which AddTorrentSpec returned no error: the client holds
\* the request's torrent and its worker is started
AdmitStep ==
    /\ cur.pc = "spec" /\ cur'.pc = "idle"
    /\ cur.ih \in torrents'
    /\ Len(workers') = Len(workers) + 1

\* C20: the wait list is served first in, first out: a re-admission taken from
\* the head of the wait list that finds the limit reached again is back at the
\* head afterwards, and a request of the caller is never admitted while another
\* identity waits on the list or on its way from it.
C20_FifoAdmission ==
    /\ [][(PushStep /\ cur.src = "nwt")
            => (waitList' # <<>> /\ Head(waitList').ih = cur.ih)]_vars
    /\ [][(AdmitStep /\ cur.src # "nwt")
            => \A ih \in Ids \ {cur.ih} : ~QueueHolds(ih)]_vars

====
